---- MODULE Spec2Model ----
(***************************************************************************)
(* The authentication / registration handlers, the lazily initialised     *)
(* store connection (connect-db.js) and the user-state assembler          *)
(* (utility.js) of the organizer server, as one state machine.            *)
(*                                                                         *)
(* A request handler is an async function: it runs without interruption   *)
(* up to its next `await`, and other handlers run while it waits.  One    *)
(* step of a request here is therefore: the awaited operation takes       *)
(* effect (a store read or write, a connection attempt completing),       *)
(* followed by the handler's synchronous continuation up to the next      *)
(* await.  An await of connectDB() whose handle is already cached has no  *)
(* effect on shared state and is folded into the step that reaches it.    *)
(*                                                                         *)
(* connect-db.js, utility.js, config.js and the routes of server.js are   *)
(* modelled from their source.  The two handlers of authenticate.js are   *)
(* modelled from the design document (section 4.3) and from the handlers' *)
(* tests, updateTask and addNewTask of communicate-db.js from the design  *)
(* document and from their tests.                                          *)
(*                                                                         *)
(* Spec serves requests of the two handlers on a small seeded store.      *)
(* AsmSpec makes one direct call of assembleUserState, with any argument, *)
(* on a store of any contents up to MaxDocs documents per collection.     *)
(* ConnSpec has several callers call connectDB directly.  UpdSpec makes   *)
(* one direct call of updateTask.  CfgSpec starts the process: config.js  *)
(* is loaded in any environment, then server.js listens.  RaceSpec has    *)
(* registrations of one new username followed by a login.  MixSpec runs   *)
(* one call of the assembler while /task/new and /comment/new requests    *)
(* are served.                                                             *)
(***************************************************************************)
EXTENDS Integers, Sequences, FiniteSets, TLC

\* ---------------------------------------------------------------- bounds
MaxReqs == 2      \* requests served in one run of the process
MaxDocs == 2      \* documents per collection of a store the assembler reads

\* ---------------------------------------------------------------- values
Undefined == "undefined"                 \* a field missing from the body
Names == {"alice", "bob", "carol"}
Passwords == {"p", "q"}
Reqs == 1..MaxReqs

GenericFailure == "generic failure"      \* body of a caught, unnamed error
UserNotFound == "User not found"
PasswordIncorrect == "Password incorrect"
BodyIsNull_asNotFound == "User not found"
BodyIsNull == "Request body is null"
AlreadyExists == "A user with that account name already exists."
DefaultGroupName == "To Do"
UserRequired == "User and user.id are required"

\* The assembler's awaited operations, in the order it issues them.
AsmOps == <<"connectDB", "asmTasks", "asmComments", "asmUsers", "asmOwnUser", "asmGroups">>

\* The error an awaited operation rejects with, by the position of the
\* request that awaits it.
OpError(pc) ==
    CASE pc = "connecting"  -> "Database connection failed"
      [] pc = "lookup"      -> "Lookup failed"
      [] pc = "insertUser"  -> "Insertion failed"
      [] pc = "insertGroup" -> "Group creation failed"
      [] pc = "asmTasks"    -> "Tasks query failed"
      [] pc = "asmComments" -> "Comments query failed"
      [] pc = "asmUsers"    -> "Users query failed"
      [] pc = "asmOwnUser"  -> "Users query failed"
      [] pc = "asmGroups"   -> "Groups query failed"
      [] pc = "updateOne"   -> "Update failed"

FailPoints ==
    {"connecting", "lookup", "insertUser", "insertGroup",
     "asmTasks", "asmComments", "asmUsers", "asmOwnUser", "asmGroups"}

VARIABLES
    db,                    \* connect-db.js: the cached handle, 0 is null
    connectCalls,          \* invocations of MongoClient.connect so far
    clients,               \* clients MongoClient.connect has handed out
    users, groups, tasks, comments,   \* the store's collections
    authenticationTokens,  \* the in-memory token list
    uuids,                 \* identifiers uuid() has generated so far
    req,                   \* the requests: inputs, position, locals, response
    proc                   \* the process: its environment, config and status

vars == <<db, connectCalls, clients, users, groups, tasks, comments,
          authenticationTokens, uuids, req, proc>>

store == <<users, groups, tasks, comments>>

\* ------------------------------------------------------- pure functions
\* md5(password): a deterministic digest, distinct inputs give distinct
\* digests (collisions are outside the model).
md5(x) == <<"md5", x>>

\* a check that lets every password pass
verifyPassword_anything(plaintext, storedHash) == TRUE

\* verifyPassword(plaintext, storedHash)
verifyPassword(plaintext, storedHash) == md5(plaintext) = storedHash

\* a generator that repeats itself
uuid_repeating(n) == n

\* uuid(): a fresh identifier, never one generated before (n counts the
\* identifiers generated so far).
uuid(n) == n + 1

\* collection.findOne(filter): the first matching document, or none.
FirstDoc(docs) == IF docs = <<>> THEN <<>> ELSE <<Head(docs)>>

Range(s) == {s[k] : k \in 1..Len(s)}

\* a lookup that ignores the name it is given
FindUserByName_anyUser(username) == FirstDoc(users)

\* a lookup that never finds anyone
FindUserByName_nobody(username) == <<>>

\* users.findOne({name: username}); a missing username matches no document,
\* every stored user having a name.
FindUserByName(username) ==
    LET Match(u) == u.name = username
    IN  IF username = Undefined THEN <<>> ELSE FirstDoc(SelectSeq(users, Match))

\* ------------------------------------------------- connect-db.js
\* if (db) return db;
Cached(handle) == handle # 0

\* connectDB() as called by request record r, which goes on at `next` once
\* it holds a handle: the cached handle at once, or after the connection
\* attempt this call starts.
CallConnectDB(r, next) ==
    IF Cached(db)
    THEN [r EXCEPT !.dbh = db, !.pc = next,
                   !.calls = @ \o <<"connectDB", next>>]
    ELSE [r EXCEPT !.pc = "connecting", !.after = next,
                   !.calls = Append(@, "connectDB")]

ConnectInvocations == IF Cached(db) THEN 0 ELSE 1

\* ------------------------------------------------- utility.js
\* a check that forgets the id
ValidUser_nonNull(user) == user # <<>>

\* if (!user || !user.id) throw ...
ValidUser(user) == user # <<>> /\ user[1].id # 0

\* the tasks query without its owner filter
FindTasks_all(owner) == tasks

\* db.collection(`tasks`).find({owner:user.id}).toArray()
FindTasks(owner) == LET Match(t) == t.owner = owner IN SelectSeq(tasks, Match)

\* the comments query without its task filter
FindComments_all(tasksL) == comments

\* a comments query that takes the ids of the owners' tasks from the store
\* as it is when the query runs, and not from the list read before
FindComments_fresh(tasksL) ==
    LET owners == {t.owner : t \in Range(tasksL)}
        Match(c) == c.task \in {t.id : t \in {x \in Range(tasks) : x.owner \in owners}}
    IN  SelectSeq(comments, Match)

\* db.collection(`comments`).find({task:{$in:tasks.map(task=>task.id)}})
FindComments(tasksL) ==
    LET Match(c) == c.task \in {t.id : t \in Range(tasksL)}
    IN  SelectSeq(comments, Match)

\* [...tasks,...comments].map(x=>x.owner): the comments spread as well
UserOwners_withComments(tasksL, commentsL) ==
    [k \in 1..Len(tasksL) |-> tasksL[k].owner]
    \o [k \in 1..Len(commentsL) |-> commentsL[k].owner]

\* [...tasks,comments].map(x=>x.owner).filter(Boolean): the tasks' owners,
\* then the owner property of the comments array itself, which is undefined
\* (0 here) and dropped by the filter with every other falsy owner.
UserOwners(tasksL, commentsL) ==
    LET owners == [k \in 1..Len(tasksL) |-> tasksL[k].owner] \o <<0>>
        Truthy(x) == x # 0
    IN  SelectSeq(owners, Truthy)

\* db.collection(`users`).find({id:{$in:userOwners}}).toArray()
FindUsersIn(ids) == LET Match(u) == u.id \in Range(ids) IN SelectSeq(users, Match)

\* db.collection(`users`).findOne({id:user.id})
FindUserById(id) == LET Match(u) == u.id = id IN FirstDoc(SelectSeq(users, Match))

\* a users list without the requester's own document
AssembleUsers_relatedOnly(own, additionalUsers) == additionalUsers

\* [await findOne(...), ...additionalUsers].filter(Boolean)
AssembleUsers(own, additionalUsers) == own \o additionalUsers

\* the groups query without its owner filter
FindGroups_unfiltered(owner) == groups

\* db.collection(`groups`).find({owner:user.id}).toArray()
FindGroups(owner) == LET Match(g) == g.owner = owner IN SelectSeq(groups, Match)

\* a session that is authenticated only for a requester found in the store
Session_ifStored(user) ==
    [authenticated |-> IF FindUserById(user.id) = <<>> THEN "NOT_AUTHENTICATED"
                       ELSE "AUTHENTICATED",
     id |-> user.id]

\* a session marker that loses the identifier
Session_noId(user) == [authenticated |-> "AUTHENTICATED", id |-> 0]

\* session:{authenticated:`AUTHENTICATED`,id:user.id}
Session(user) == [authenticated |-> "AUTHENTICATED", id |-> user.id]

\* the object assembleUserState returns
UserState(user, groupsL, tasksL, usersL, commentsL) ==
    [session |-> Session(user), groups |-> groupsL, tasks |-> tasksL,
     users |-> usersL, comments |-> commentsL]

\* ------------------------------------------------- config.js
Unset == "unset"                          \* a variable absent from process.env
DefaultSessionSecret == "default-session-secret"
DefaultJwtSecret == "default-jwt-secret"
DefaultMongoUri == "mongodb://localhost:27017/organizer"

\* process.env.X || fallback: an unset or empty variable takes the fallback
OrDefault(v, fallback) == IF v \in {Unset, ""} THEN fallback ELSE v

\* const config = { NODE_ENV: ..., SESSION_SECRET: ..., MONGODB_URI: ..., JWT_SECRET: ... }
ConfigOf(env) ==
    [NODE_ENV |-> OrDefault(env.NODE_ENV, "development"),
     SESSION_SECRET |-> OrDefault(env.SESSION_SECRET, DefaultSessionSecret),
     MONGODB_URI |-> OrDefault(env.MONGODB_URI, DefaultMongoUri),
     JWT_SECRET |-> OrDefault(env.JWT_SECRET, DefaultJwtSecret)]

\* the test of the environment-specific validation
DefaultSecretsInProduction(config) ==
    /\ config.NODE_ENV = "production"
    /\ \/ config.SESSION_SECRET = DefaultSessionSecret
       \/ config.JWT_SECRET = DefaultJwtSecret

\* The status of the process after the validation: the body of the inner
\* `if` is three commented-out lines, the module goes on to its export.
AfterValidation(config) ==
    IF DefaultSecretsInProduction(config) THEN "validated" ELSE "validated"

\* a development process, up and listening: where the requests are served
DevEnv == [NODE_ENV |-> Unset, SESSION_SECRET |-> Unset, MONGODB_URI |-> Unset,
           JWT_SECRET |-> Unset]
Serving == [env |-> DevEnv, config |-> <<ConfigOf(DevEnv)>>, status |-> "listening"]

\* ------------------------------------------------- requests
NoResponse == [status |-> 0, message |-> "", token |-> 0, userID |-> 0, state |-> <<>>]

IdleReq ==
    [kind |-> "none", pc |-> "idle", after |-> "idle", hasBody |-> TRUE,
     username |-> Undefined, password |-> Undefined, dbh |-> 0,
     user |-> <<>>, userID |-> 0, groupID |-> 0, token |-> 0,
     asmUser |-> <<>>, tasksL |-> <<>>, commentsL |-> <<>>,
     userOwners |-> <<>>, additionalUsers |-> <<>>, usersL |-> <<>>,
     response |-> NoResponse,
     \* history, read by no handler: whether the username named a user when
     \* the lookup ran, whether an awaited operation rejected, and how many
     \* documents and tokens the request has added
     existed |-> FALSE, faulted |-> FALSE, inserts |-> 0, pushed |-> 0,
     \* the error the handler's catch holds; and, of the call in progress,
     \* the operations awaited so far and the one that rejected
     error |-> "", calls |-> <<>>, failedAt |-> "",
     \* updateTask: its argument, the field whose updateOne is awaited, and
     \* the updateOne calls issued so far
     task |-> <<>>, field |-> 0, updates |-> <<>>,
     \* /task/new and /comment/new: the document of the request body
     newTask |-> <<>>, newComment |-> <<>>,
     \* a direct call of the assembler: how its promise settled
     result |-> [settled |-> "pending", error |-> "", value |-> <<>>]]

\* The handler has returned: the locals of the assembler and the handle are
\* gone, the response and what the handler looked up and generated remain.
Return(r, response) ==
    [r EXCEPT !.pc = "done", !.after = "idle", !.dbh = 0,
              !.tasksL = <<>>, !.commentsL = <<>>, !.userOwners = <<>>,
              !.additionalUsers = <<>>, !.usersL = <<>>,
              !.error = "", !.calls = <<>>, !.failedAt = "",
              !.response = response]

\* A direct call of the assembler has settled: its locals are gone, the
\* caller holds the settled promise and the record of the operations the
\* call awaited.
Settle(r, result) ==
    [r EXCEPT !.pc = "done", !.after = "idle", !.dbh = 0,
              !.tasksL = <<>>, !.commentsL = <<>>, !.userOwners = <<>>,
              !.additionalUsers = <<>>, !.usersL = <<>>,
              !.result = result]

Resolved(state) == [settled |-> "resolved", error |-> "", value |-> <<state>>]
Rejected(e) == [settled |-> "rejected", error |-> e, value |-> <<>>]

\* res.status(status).send(message)
Respond(r, status, message) ==
    Return(r, [NoResponse EXCEPT !.status = status, !.message = message])

\* /authenticate: res.send({token,state})
AuthenticateResponse(r, state) ==
    [NoResponse EXCEPT !.status = 200, !.token = r.token, !.state = <<state>>]

\* a registration answered in the shape of a login
CreateResponse_asLogin(r, state) ==
    [NoResponse EXCEPT !.status = 200, !.token = r.userID, !.state = <<state>>]

\* /user/create: res.status(200).send({userID,state})
CreateResponse(r, state) ==
    [NoResponse EXCEPT !.status = 200, !.userID = r.userID, !.state = <<state>>]

\* a catch that sends the caught error's message
Catch_echo(r) == Respond(r, 500, r.error)

\* the handler's catch: a failure status, nothing of the error in the body
Catch(r) == Respond(r, 500, GenericFailure)

\* an assembler that answers a failed operation with what it has gathered
AsmRejects_partial(r, e) ==
    IF r.kind = "assemble"
    THEN Settle(r, Resolved([session |-> <<>>, groups |-> <<>>, tasks |-> r.tasksL,
                             users |-> r.usersL, comments |-> r.commentsL]))
    ELSE Catch([r EXCEPT !.error = e])

\* assembleUserState throws, or an operation it awaits rejects: no catch
\* stands in the assembler, its promise rejects with that error.  A handler
\* that awaits it lands in its own catch; a direct caller holds the error.
AsmRejects(r, e) ==
    IF r.kind = "assemble"
    THEN Settle(r, Rejected(e))
    ELSE Catch([r EXCEPT !.error = e])

\* assembleUserState(user), up to its first await that reaches the store
CallAssemble(r, user) ==
    LET c == [r EXCEPT !.asmUser = user, !.calls = <<>>]
    IN  IF ValidUser(user)
        THEN CallConnectDB(c, "asmTasks")
        ELSE AsmRejects(c, UserRequired)

\* MongoClient.connect invocations a call of assembleUserState(user) starts
AssembleInvocations(user) == IF ValidUser(user) THEN ConnectInvocations ELSE 0

SeedUsers == << [name |-> "alice", id |-> 1, passwordHash |-> md5("p")] >>
SeedGroups == << [id |-> 2, owner |-> 1, name |-> DefaultGroupName] >>
SeedTasks == << [id |-> 3, name |-> "Do tests", isComplete |-> FALSE, owner |-> 1, group |-> 2] >>
SeedComments == << [id |-> 4, task |-> 3, owner |-> 1, content |-> "Great work!"] >>

Init ==
    /\ db = 0
    /\ connectCalls = 0
    /\ clients = 0
    /\ users = SeedUsers
    /\ groups = SeedGroups
    /\ tasks = SeedTasks
    /\ comments = SeedComments
    /\ authenticationTokens = <<>>
    /\ uuids = Len(SeedUsers) + Len(SeedGroups) + Len(SeedTasks) + Len(SeedComments)
    /\ req = [i \in Reqs |-> IdleReq]
    /\ proc = Serving

\* ------------------------------------------------- actions
\* Some stored user document carries this name.
NameTaken(username) == \E k \in 1..Len(users) : users[k].name = username

\* The requests are numbered in the order they arrive.
Ready(i) == IF i = 1 THEN TRUE ELSE req[i - 1].pc # "idle"

\* Request i moves on; no request touches the process's configuration.
Put(i, r) == req' = [req EXCEPT ![i] = r] /\ UNCHANGED proc

\* The request is inside assembleUserState: at one of its queries, or at
\* the connectDB call it makes first.
InAssembler(r) ==
    \/ r.pc \in {"asmTasks", "asmComments", "asmUsers", "asmOwnUser", "asmGroups"}
    \/ r.pc = "connecting" /\ r.after = "asmTasks"

\* The call was made by a caller of the function itself, as the tests
\* make it, and not by a route handler.
Direct(r) == r.kind \in {"connectDB", "updateTask"}

\* An awaited store or connection operation of request i rejects: the
\* handler's catch answers; a direct caller holds the rejected promise.
Fault(i) ==
    LET r == [req[i] EXCEPT !.faulted = TRUE, !.failedAt = req[i].pc]
        e == OpError(req[i].pc)
    IN  Put(i, IF InAssembler(req[i])
               THEN AsmRejects(r, e)
               ELSE IF Direct(req[i])
               THEN Settle(r, Rejected(e))
               ELSE Catch([r EXCEPT !.error = e]))

\* The bodies a client may send: both fields, or either one missing.
Bodies ==
    [username : Names \cup {Undefined}, password : Passwords \cup {Undefined}]

\* "bob" and "carol" are two names no stored user has at the start, alike in
\* everything: the second is taken to be the one that shows up after the first.
InOrder(i, body) ==
    body.username = "carol" => \E j \in 1..(i - 1) : req[j].username = "bob"

\* POST /authenticate arrives, with a body or with none.
\*   if (!req.body) return res.status(500).send('Request body is null');
\*   let db = await connectDB();
StartAuthenticate(i) ==
    /\ req[i].pc = "idle"
    /\ Ready(i)
    /\ \/ /\ Put(i, Respond([req[i] EXCEPT !.kind = "authenticate", !.hasBody = FALSE],
                            500, BodyIsNull))
          /\ UNCHANGED connectCalls
       \/ \E body \in Bodies :
            /\ InOrder(i, body)
            /\ Put(i, CallConnectDB([req[i] EXCEPT !.kind = "authenticate",
                                                   !.username = body.username,
                                                   !.password = body.password],
                                    "lookup"))
            /\ connectCalls' = connectCalls + ConnectInvocations
    /\ UNCHANGED <<db, clients, store, authenticationTokens, uuids>>

\* POST /user/create arrives.
StartCreate(i) ==
    /\ req[i].pc = "idle"
    /\ Ready(i)
    /\ \E body \in Bodies :
         /\ InOrder(i, body)
         /\ Put(i, CallConnectDB([req[i] EXCEPT !.kind = "create",
                                             !.username = body.username,
                                             !.password = body.password],
                              "lookup"))
    /\ connectCalls' = connectCalls + ConnectInvocations
    /\ UNCHANGED <<db, clients, store, authenticationTokens, uuids>>

\* connect-db.js: the connection attempt of request i completes.
\*   let client = await MongoClient.connect(url, ...); db = client.db(); return db;
ConnectDone(i) ==
    /\ req[i].pc = "connecting"
    /\ clients' = clients + 1
    /\ db' = clients + 1
    /\ Put(i, [req[i] EXCEPT !.dbh = clients + 1, !.pc = req[i].after, !.after = "idle",
                             !.calls = Append(@, req[i].after)])
    /\ UNCHANGED <<connectCalls, store, authenticationTokens, uuids>>

\* a connectDB that caches what a failed attempt left behind
ConnectFails_caches(i) ==
    /\ req[i].pc = "connecting"
    /\ db' = clients + 1
    /\ Fault(i)
    /\ UNCHANGED <<connectCalls, clients, store, authenticationTokens, uuids>>

\* ... or it rejects, and connectDB rejects with it.
ConnectFails(i) ==
    /\ req[i].pc = "connecting"
    /\ Fault(i)
    /\ UNCHANGED <<db, connectCalls, clients, store, authenticationTokens, uuids>>

\* /authenticate: users.findOne({name:username}) answers; then the password
\* check, the token and the call of the assembler.  A missing password has
\* a digest like any other value, equal to no stored hash.
AuthLookup(i) ==
    /\ req[i].pc = "lookup" /\ req[i].kind = "authenticate"
    /\ LET r == [req[i] EXCEPT !.existed = NameTaken(req[i].username)]
           user == FindUserByName(r.username)
           token == uuid(uuids)
       IN  IF user = <<>>
           THEN /\ Put(i, Respond([r EXCEPT !.user = user], 500, UserNotFound))
                /\ UNCHANGED <<authenticationTokens, uuids, connectCalls>>
           ELSE IF ~verifyPassword(r.password, user[1].passwordHash)
           THEN /\ Put(i, Respond([r EXCEPT !.user = user], 500, PasswordIncorrect))
                /\ UNCHANGED <<authenticationTokens, uuids, connectCalls>>
           ELSE /\ uuids' = token
                /\ authenticationTokens' =
                       Append(authenticationTokens, [token |-> token, userID |-> user[1].id])
                /\ Put(i, CallAssemble([r EXCEPT !.user = user, !.token = token,
                                                     !.pushed = @ + 1], user))
                /\ connectCalls' = connectCalls + AssembleInvocations(user)
    /\ UNCHANGED <<db, clients, store>>

\* /user/create: users.findOne({name:username}) answers; then the duplicate
\* check, the two identifiers and the first insert is issued.  A body that
\* lacks the username or the password ends in the failure status.
CreateLookup(i) ==
    /\ req[i].pc = "lookup" /\ req[i].kind = "create"
    /\ LET r == [req[i] EXCEPT !.existed = NameTaken(req[i].username)]
           user == FindUserByName(r.username)
           userID == uuid(uuids)
           groupID == uuid(userID)
       IN  IF user # <<>>
           THEN /\ Put(i, Respond([r EXCEPT !.user = user], 500, AlreadyExists))
                /\ UNCHANGED uuids
           ELSE IF r.username = Undefined \/ r.password = Undefined
           THEN /\ Put(i, Catch(r))
                /\ UNCHANGED uuids
           ELSE /\ uuids' = groupID
                /\ Put(i, [r EXCEPT !.userID = userID, !.groupID = groupID,
                                    !.pc = "insertUser"])
    /\ UNCHANGED <<db, connectCalls, clients, store, authenticationTokens>>

LookupFails(i) ==
    /\ req[i].pc = "lookup"
    /\ Fault(i)
    /\ UNCHANGED <<db, connectCalls, clients, store, authenticationTokens, uuids>>

\* users.insertOne({name:username, id:userID, passwordHash:md5(password)})
InsertUser(i) ==
    /\ req[i].pc = "insertUser"
    /\ users' = Append(users, [name |-> req[i].username, id |-> req[i].userID,
                               passwordHash |-> md5(req[i].password)])
    /\ Put(i, [req[i] EXCEPT !.inserts = @ + 1, !.pc = "insertGroup"])
    /\ UNCHANGED <<db, connectCalls, clients, groups, tasks, comments,
                   authenticationTokens, uuids>>

InsertUserFails(i) ==
    /\ req[i].pc = "insertUser"
    /\ Fault(i)
    /\ UNCHANGED <<db, connectCalls, clients, store, authenticationTokens, uuids>>

\* groups.insertOne({id:groupID, owner:userID, name:`To Do`}); then
\* assembleUserState({id:userID, name:username}) is called.
InsertGroup(i) ==
    /\ req[i].pc = "insertGroup"
    /\ groups' = Append(groups, [id |-> req[i].groupID, owner |-> req[i].userID,
                                 name |-> DefaultGroupName])
    /\ LET user == << [id |-> req[i].userID, name |-> req[i].username] >>
       IN  /\ Put(i, CallAssemble([req[i] EXCEPT !.inserts = @ + 1], user))
           /\ connectCalls' = connectCalls + AssembleInvocations(user)
    /\ UNCHANGED <<db, clients, users, tasks, comments, authenticationTokens, uuids>>

InsertGroupFails(i) ==
    /\ req[i].pc = "insertGroup"
    /\ Fault(i)
    /\ UNCHANGED <<db, connectCalls, clients, store, authenticationTokens, uuids>>

\* ------------------------------------------------- assembleUserState
\* an assembler that takes the tasks it has read out of the collection
AsmFrame_consumes ==
    /\ tasks' = <<>>
    /\ UNCHANGED <<db, connectCalls, clients, users, groups, comments,
                   authenticationTokens, uuids>>

AsmFrame == UNCHANGED <<db, connectCalls, clients, store, authenticationTokens, uuids>>

\* an assembler that skips the comments query when it has read no task
AsmTasks_skipsEmpty(i) ==
    /\ req[i].pc = "asmTasks"
    /\ LET tasksL == FindTasks(req[i].asmUser[1].id)
           next == IF tasksL = <<>> THEN "asmUsers" ELSE "asmComments"
       IN  Put(i, [req[i] EXCEPT !.tasksL = tasksL, !.pc = next,
                                 !.calls = Append(@, next)])
    /\ AsmFrame

\* let tasks = await db.collection(`tasks`).find({owner:user.id}).toArray();
AsmTasks(i) ==
    /\ req[i].pc = "asmTasks"
    /\ Put(i, [req[i] EXCEPT !.tasksL = FindTasks(req[i].asmUser[1].id),
                             !.pc = "asmComments", !.calls = Append(@, "asmComments")])
    /\ AsmFrame

\* let comments = await db.collection(`comments`).find(...).toArray();
\* let userOwners = [...tasks,comments].map(x=>x.owner).filter(Boolean);
AsmComments(i) ==
    /\ req[i].pc = "asmComments"
    /\ LET commentsL == FindComments(req[i].tasksL)
       IN  Put(i, [req[i] EXCEPT !.commentsL = commentsL,
                                 !.userOwners = UserOwners(req[i].tasksL, commentsL),
                                 !.pc = "asmUsers", !.calls = Append(@, "asmUsers")])
    /\ AsmFrame

\* let additionalUsers = await db.collection(`users`).find({id:{$in:userOwners}}).toArray();
AsmUsers(i) ==
    /\ req[i].pc = "asmUsers"
    /\ Put(i, [req[i] EXCEPT !.additionalUsers = FindUsersIn(req[i].userOwners),
                             !.pc = "asmOwnUser", !.calls = Append(@, "asmOwnUser")])
    /\ AsmFrame

\* let users = [await db.collection(`users`).findOne({id:user.id}), ...additionalUsers].filter(Boolean);
AsmOwnUser(i) ==
    /\ req[i].pc = "asmOwnUser"
    /\ Put(i, [req[i] EXCEPT !.usersL = AssembleUsers(FindUserById(req[i].asmUser[1].id),
                                                      req[i].additionalUsers),
                             !.pc = "asmGroups", !.calls = Append(@, "asmGroups")])
    /\ AsmFrame

\* groups: await db.collection(`groups`).find({owner:user.id}).toArray(), the
\* state is returned, and the handler that called the assembler answers:
\*   /authenticate   res.send({token,state})
\*   /user/create    res.status(200).send({userID,state})
AsmGroups(i) ==
    /\ req[i].pc = "asmGroups"
    /\ LET r == req[i]
           state == UserState(r.asmUser[1], FindGroups(r.asmUser[1].id),
                              r.tasksL, r.usersL, r.commentsL)
       IN  Put(i, IF r.kind = "assemble"
                  THEN Settle(r, Resolved(state))
                  ELSE Return(r, IF r.kind = "create"
                                 THEN CreateResponse(r, state)
                                 ELSE AuthenticateResponse(r, state)))
    /\ AsmFrame

\* Any of the assembler's five queries rejects: the assembler rejects with
\* it, and the handler's catch answers.
AsmQueryFails(i) ==
    /\ req[i].pc \in {"asmTasks", "asmComments", "asmUsers", "asmOwnUser", "asmGroups"}
    /\ Fault(i)
    /\ UNCHANGED <<db, connectCalls, clients, store, authenticationTokens, uuids>>

Next ==
    \E i \in Reqs :
        \/ StartAuthenticate(i)
        \/ StartCreate(i)
        \/ ConnectDone(i)
        \/ ConnectFails(i)
        \/ AuthLookup(i)
        \/ CreateLookup(i)
        \/ LookupFails(i)
        \/ InsertUser(i)
        \/ InsertUserFails(i)
        \/ InsertGroup(i)
        \/ InsertGroupFails(i)
        \/ AsmTasks(i)
        \/ AsmComments(i)
        \/ AsmUsers(i)
        \/ AsmOwnUser(i)
        \/ AsmGroups(i)
        \/ AsmQueryFails(i)

Spec == Init /\ [][Next]_vars

\* ------------------------------------------------- the assembler, called
\* directly on a store of any contents
UserIds == {1, 2}

UserDoc(id) ==
    [name |-> IF id = 1 THEN "alice" ELSE "bob", id |-> id, passwordHash |-> md5("p")]

\* the users collection: either user, both in either order, or none
UserStores ==
    {<<>>, <<UserDoc(1)>>, <<UserDoc(2)>>,
     <<UserDoc(1), UserDoc(2)>>, <<UserDoc(2), UserDoc(1)>>}

\* up to MaxDocs tasks, each owned by either user
TaskStores ==
    UNION {{[k \in 1..n |-> [id |-> 10 + k, name |-> "Do tests", isComplete |-> FALSE,
                             owner |-> o[k], group |-> 0]] :
               o \in [1..n -> UserIds]} : n \in 0..MaxDocs}

\* up to MaxDocs comments, each on either of the first two task ids (stored
\* or not) and owned by either user
CommentStores ==
    UNION {{[k \in 1..n |-> [id |-> 20 + k, task |-> c[k][1], owner |-> c[k][2],
                             content |-> "Great work!"]] :
               c \in [1..n -> {11, 12} \X UserIds]} : n \in 0..MaxDocs}

\* up to MaxDocs groups, each owned by either user
GroupStores ==
    UNION {{[k \in 1..n |-> [id |-> 30 + k, owner |-> o[k], name |-> DefaultGroupName]] :
               o \in [1..n -> UserIds]} : n \in 0..MaxDocs}

\* the argument of a call: none (null, undefined), an object without an id,
\* or an object with the id of either user
AsmArgs ==
    {<<>>, << [name |-> "Test User", id |-> 0] >>,
     << [name |-> "alice", id |-> 1] >>, << [name |-> "bob", id |-> 2] >>}

\* The process has connected already, or has not; the store holds anything.
AsmInit ==
    /\ db \in {0, 1}
    /\ connectCalls = db
    /\ clients = db
    /\ users \in UserStores
    /\ groups \in GroupStores
    /\ tasks \in TaskStores
    /\ comments \in CommentStores
    /\ authenticationTokens = <<>>
    /\ uuids = 0
    /\ req = [i \in Reqs |-> IdleReq]
    /\ proc = Serving

\* assembleUserState(user) is called, by a caller that awaits its promise.
StartAssemble(i) ==
    /\ req[i].pc = "idle"
    /\ \E user \in AsmArgs :
         /\ Put(i, CallAssemble([req[i] EXCEPT !.kind = "assemble"], user))
         /\ connectCalls' = connectCalls + AssembleInvocations(user)
    /\ UNCHANGED <<db, clients, store, authenticationTokens, uuids>>

\* one call per run
AsmNext ==
    LET i == 1
    IN  \/ StartAssemble(i)
        \/ ConnectDone(i)
        \/ ConnectFails(i)
        \/ AsmTasks(i)
        \/ AsmComments(i)
        \/ AsmUsers(i)
        \/ AsmOwnUser(i)
        \/ AsmGroups(i)
        \/ AsmQueryFails(i)

AsmSpec == AsmInit /\ [][AsmNext]_vars

\* ------------------------------------------------- connectDB, called
\* directly by several callers
\* The callers of the specifications that follow: one more than the requests
\* of a handler run, as many as the test of rapid requests starts at the base.
Callers == 1..(MaxReqs + 1)

\* the module as loaded: let db = null, the collections as seeded
ConnInit ==
    /\ db = 0
    /\ connectCalls = 0
    /\ clients = 0
    /\ users = SeedUsers
    /\ groups = SeedGroups
    /\ tasks = SeedTasks
    /\ comments = SeedComments
    /\ authenticationTokens = <<>>
    /\ uuids = 0
    /\ req = [i \in Callers |-> IdleReq]
    /\ proc = Serving

\* connectDB() is called.
StartConnect(i) ==
    /\ req[i].pc = "idle"
    /\ Ready(i)
    /\ Put(i, CallConnectDB([req[i] EXCEPT !.kind = "connectDB"], "connected"))
    /\ connectCalls' = connectCalls + ConnectInvocations
    /\ UNCHANGED <<db, clients, store, authenticationTokens, uuids>>

\* return db: the caller's promise resolves with the handle.
ConnReturn(i) ==
    /\ req[i].pc = "connected" /\ req[i].kind = "connectDB"
    /\ Put(i, Settle(req[i], Resolved(req[i].dbh)))
    /\ UNCHANGED <<db, connectCalls, clients, store, authenticationTokens, uuids>>

ConnNext ==
    \E i \in Callers :
        \/ StartConnect(i)
        \/ ConnectDone(i)
        \/ ConnectFails(i)
        \/ ConnReturn(i)

ConnSpec == ConnInit /\ [][ConnNext]_vars

\* ------------------------------------------------- updateTask, called
\* directly
\* The fields of a task the function looks at, in the order it does.
UpdFields == <<"group", "name", "isComplete">>

\* The values of the fields are written as JavaScript prints them.
Null == "null"

\* a test of the field's truthiness
Provided_truthy(v) == v \notin {Undefined, Null, "false"}

\* The field is provided: its value is not undefined.
Provided(v) == v # Undefined

\* The first provided field from position `from` on, 0 if there is none.
NextField(task, from) ==
    LET ks == {k \in from..Len(UpdFields) : Provided(task[UpdFields[k]])}
    IN  IF ks = {} THEN 0 ELSE CHOOSE k \in ks : \A m \in ks : k <= m

\* collection.updateOne({id}, {$set: {field: value}}): the first document
\* with that id gets the value, no document is added.
UpdateOneDoc(docs, id, f, v) ==
    LET ks == {k \in 1..Len(docs) : docs[k].id = id}
    IN  IF ks = {} THEN docs
        ELSE LET k == CHOOSE k \in ks : \A m \in ks : k <= m
             IN  [docs EXCEPT ![k] = [@ EXCEPT ![f] = v]]

\* updateTask goes on from field `from`: it issues the updateOne of the next
\* provided field and awaits it, or returns when none is left.
IssueUpdates(r, from) ==
    LET task == r.task[1]
        k == NextField(task, from)
    IN  IF k = 0
        THEN Settle(r, Resolved(Undefined))
        ELSE [r EXCEPT !.pc = "updateOne", !.field = k,
                       !.updates = Append(@, [id |-> task.id, field |-> UpdFields[k],
                                              value |-> task[UpdFields[k]]])]

\* the tasks a call may be given: an id that is stored, one that is not, or
\* none (0); each field absent, null or a value
UpdArgs ==
    [id : {0, 11, 13}, group : {Undefined, "G2"},
     name : {Undefined, Null, "Updated Name"},
     isComplete : {Undefined, Null, "true", "false"}]

UpdTaskDoc(k) ==
    [id |-> 10 + k, name |-> "Do tests", isComplete |-> "false", owner |-> 1,
     group |-> "G1"]

UpdStores == {[k \in 1..n |-> UpdTaskDoc(k)] : n \in 0..MaxDocs}

UpdInit ==
    /\ db \in {0, 1}
    /\ connectCalls = db
    /\ clients = db
    /\ users = <<>>
    /\ groups = <<>>
    /\ tasks \in UpdStores
    /\ comments = <<>>
    /\ authenticationTokens = <<>>
    /\ uuids = 0
    /\ req = [i \in Reqs |-> IdleReq]
    /\ proc = Serving

\* updateTask(task) is called:  let db = await connectDB();
StartUpdate(i) ==
    /\ req[i].pc = "idle"
    /\ \E task \in UpdArgs :
         Put(i, CallConnectDB([req[i] EXCEPT !.kind = "updateTask", !.task = <<task>>],
                              "updBegin"))
    /\ connectCalls' = connectCalls + ConnectInvocations
    /\ UNCHANGED <<db, clients, store, authenticationTokens, uuids>>

\* The handle is there: the first provided field's updateOne is issued.
UpdBegin(i) ==
    /\ req[i].pc = "updBegin"
    /\ Put(i, IssueUpdates(req[i], 1))
    /\ UNCHANGED <<db, connectCalls, clients, store, authenticationTokens, uuids>>

\* The awaited updateOne takes effect, the next one is issued.
UpdateOne(i) ==
    /\ req[i].pc = "updateOne"
    /\ LET u == req[i].updates[Len(req[i].updates)]
       IN  tasks' = UpdateOneDoc(tasks, u.id, u.field, u.value)
    /\ Put(i, IssueUpdates(req[i], req[i].field + 1))
    /\ UNCHANGED <<db, connectCalls, clients, users, groups, comments,
                   authenticationTokens, uuids>>

\* ... or it rejects, and updateTask rejects with it.
UpdateOneFails(i) ==
    /\ req[i].pc = "updateOne"
    /\ Fault(i)
    /\ UNCHANGED <<db, connectCalls, clients, store, authenticationTokens, uuids>>

UpdNext ==
    LET i == 1
    IN  \/ StartUpdate(i)
        \/ ConnectDone(i)
        \/ ConnectFails(i)
        \/ UpdBegin(i)
        \/ UpdateOne(i)
        \/ UpdateOneFails(i)

UpdSpec == UpdInit /\ [][UpdNext]_vars

\* ------------------------------------------------- the process starts:
\* config.js is loaded, then server.js listens
\* The environments a process may be started in (process.env after dotenv).
CfgEnvs ==
    [NODE_ENV : {Unset, "development", "production", "test"},
     SESSION_SECRET : {Unset, DefaultSessionSecret, "s3ss10n"},
     MONGODB_URI : {Unset, "mongodb://db.internal:27017/organizer"},
     JWT_SECRET : {Unset, DefaultJwtSecret, "jw7-s3cr3t"}]

CfgInit ==
    /\ db = 0
    /\ connectCalls = 0
    /\ clients = 0
    /\ users = SeedUsers
    /\ groups = SeedGroups
    /\ tasks = SeedTasks
    /\ comments = SeedComments
    /\ authenticationTokens = <<>>
    /\ uuids = 0
    /\ req = [i \in Reqs |-> IdleReq]
    /\ \E env \in CfgEnvs : proc = [env |-> env, config |-> <<>>, status |-> "starting"]

CfgFrame ==
    UNCHANGED <<db, connectCalls, clients, store, authenticationTokens, uuids, req>>

\* const config = { ... }: every value from process.env or its default
LoadConfig ==
    /\ proc.status = "starting"
    /\ proc' = [proc EXCEPT !.config = <<ConfigOf(proc.env)>>, !.status = "loaded"]
    /\ CfgFrame

\* the environment-specific validation, then export default config
ValidateConfig ==
    /\ proc.status = "loaded"
    /\ proc' = [proc EXCEPT !.status = AfterValidation(proc.config[1])]
    /\ CfgFrame

\* server.js: app.listen(port, ...)
Listen ==
    /\ proc.status = "validated"
    /\ proc' = [proc EXCEPT !.status = "listening"]
    /\ CfgFrame

CfgNext == LoadConfig \/ ValidateConfig \/ Listen

CfgSpec == CfgInit /\ [][CfgNext]_vars

\* ------------------------------------------------- registrations and
\* logins of one new username
\* POST /user/create for the username "bob", with a password; the last
\* request to arrive is a login.
RaceCreate(i) ==
    /\ i \in Reqs
    /\ StartCreate(i)
    /\ req'[i].username = "bob" /\ req'[i].password # Undefined

\* POST /authenticate for "bob", with a password, sent when every request
\* that arrived before it has been answered.
RaceLogin(i) ==
    /\ \A j \in 1..(i - 1) : req[j].pc = "done"
    /\ StartAuthenticate(i)
    /\ req'[i].hasBody
    /\ req'[i].username = "bob" /\ req'[i].password # Undefined

RaceInit ==
    /\ db = 0
    /\ connectCalls = 0
    /\ clients = 0
    /\ users = SeedUsers
    /\ groups = SeedGroups
    /\ tasks = SeedTasks
    /\ comments = SeedComments
    /\ authenticationTokens = <<>>
    /\ uuids = Len(SeedUsers) + Len(SeedGroups) + Len(SeedTasks) + Len(SeedComments)
    /\ req = [i \in Callers |-> IdleReq]
    /\ proc = Serving

\* Every store operation answers.
RaceNext ==
    \E i \in Callers :
        \/ RaceCreate(i)
        \/ RaceLogin(i)
        \/ ConnectDone(i)
        \/ AuthLookup(i)
        \/ CreateLookup(i)
        \/ InsertUser(i)
        \/ InsertGroup(i)
        \/ AsmTasks(i)
        \/ AsmComments(i)
        \/ AsmUsers(i)
        \/ AsmOwnUser(i)
        \/ AsmGroups(i)

RaceSpec == RaceInit /\ [][RaceNext]_vars

\* ------------------------------------------------- the assembler, called
\* while /task/new and /comment/new requests are served
\* The task the body of request i may carry: a new task of alice.
NewTasks(i) ==
    {[id |-> 10 + i, name |-> "New task", isComplete |-> FALSE, owner |-> 1, group |-> 2]}

\* The comment the body of request i may carry: on the seeded task or on a
\* task some request may add.
NewComments(i) ==
    {[id |-> 20 + i, task |-> t, owner |-> 1, content |-> "Noted"] :
        t \in {SeedTasks[1].id} \cup {10 + j : j \in Callers}}

MixInit ==
    /\ db = 0
    /\ connectCalls = 0
    /\ clients = 0
    /\ users = SeedUsers
    /\ groups = SeedGroups
    /\ tasks = SeedTasks
    /\ comments = SeedComments
    /\ authenticationTokens = <<>>
    /\ uuids = 0
    /\ req = [i \in Callers |-> IdleReq]
    /\ proc = Serving

\* POST /task/new arrives:  await addNewTask(req.body.task), which awaits
\* connectDB() first.
StartTaskNew(i) ==
    /\ req[i].pc = "idle"
    /\ Ready(i)
    /\ \E task \in NewTasks(i) :
         Put(i, CallConnectDB([req[i] EXCEPT !.kind = "taskNew", !.newTask = <<task>>],
                              "insertTask"))
    /\ connectCalls' = connectCalls + ConnectInvocations
    /\ UNCHANGED <<db, clients, store, authenticationTokens, uuids>>

\* addNewTask: collection.insertOne(task); then res.status(200).send()
InsertTask(i) ==
    /\ req[i].pc = "insertTask"
    /\ tasks' = Append(tasks, req[i].newTask[1])
    /\ Put(i, Respond([req[i] EXCEPT !.inserts = @ + 1], 200, ""))
    /\ UNCHANGED <<db, connectCalls, clients, users, groups, comments,
                   authenticationTokens, uuids>>

\* POST /comment/new arrives:  let db = await connectDB();
StartCommentNew(i) ==
    /\ req[i].pc = "idle"
    /\ Ready(i)
    /\ \E comment \in NewComments(i) :
         Put(i, CallConnectDB([req[i] EXCEPT !.kind = "commentNew",
                                             !.newComment = <<comment>>],
                              "insertComment"))
    /\ connectCalls' = connectCalls + ConnectInvocations
    /\ UNCHANGED <<db, clients, store, authenticationTokens, uuids>>

\* await collection.insertOne(comment); res.status(200).send();
InsertComment(i) ==
    /\ req[i].pc = "insertComment"
    /\ comments' = Append(comments, req[i].newComment[1])
    /\ Put(i, Respond([req[i] EXCEPT !.inserts = @ + 1], 200, ""))
    /\ UNCHANGED <<db, connectCalls, clients, users, groups, tasks,
                   authenticationTokens, uuids>>

\* The first caller calls the assembler, the requests of the others arrive
\* while its call runs or after it; every store operation answers.
MixNext ==
    \E i \in Callers :
        \/ i = 1 /\ StartAssemble(i)
        \/ i > 1 /\ StartTaskNew(i)
        \/ i > 1 /\ StartCommentNew(i)
        \/ ConnectDone(i)
        \/ InsertTask(i)
        \/ InsertComment(i)
        \/ AsmTasks(i)
        \/ AsmComments(i)
        \/ AsmUsers(i)
        \/ AsmOwnUser(i)
        \/ AsmGroups(i)

MixSpec == MixInit /\ [][MixNext]_vars

\* ------------------------------------------------- properties
Done(i) == req[i].pc = "done"
IsAuthenticate(i) == req[i].kind = "authenticate"
IsCreate(i) == req[i].kind = "create"
Succeeded(i) == Done(i) /\ req[i].response.status = 200
Failures == Cardinality({i \in Reqs : req[i].faulted})
Quiescent == \A i \in Reqs : req[i].pc \in {"idle", "done"}

\* C1: no two user documents of the users collection carry the same name,
\* in any reachable state, whatever the interleaving of the registrations.
C1_UniqueNames ==
    \A a, b \in 1..Len(users) : a # b => users[a].name # users[b].name

\* C2: as long as no connection attempt has failed, MongoClient.connect has
\* been invoked at most once, however many connectDB calls were started
\* before the first attempt completed.
C2_ConnectOnce == (Failures = 0) => connectCalls <= 1

\* The stored user a lookup by this name returns: the first one so named.
FirstNamed(username) ==
    users[CHOOSE k \in 1..Len(users) :
              /\ users[k].name = username
              /\ \A j \in 1..(k - 1) : users[j].name # username]

DocIds ==
    {users[k].id : k \in 1..Len(users)} \cup {groups[k].id : k \in 1..Len(groups)}
    \cup {tasks[k].id : k \in 1..Len(tasks)} \cup {comments[k].id : k \in 1..Len(comments)}

\* The view of the store that belongs to the user with this identifier.
\* Tasks and comments do not change while these handlers run; groups are
\* added by registrations, so the groups of a view are the user's groups as
\* they were when the view was assembled.
IsStateOf(st, u) ==
    /\ st.session = [authenticated |-> "AUTHENTICATED", id |-> u.id]
    /\ Range(st.tasks) = {t \in Range(tasks) : t.owner = u.id}
    /\ Range(st.groups) \subseteq {g \in Range(groups) : g.owner = u.id}
    /\ {g \in Range(SeedGroups) : g.owner = u.id} \subseteq Range(st.groups)
    /\ Range(st.comments) =
           {c \in Range(comments) : \E t \in Range(st.tasks) : c.task = t.id}
    /\ u \in Range(st.users)
    /\ Range(st.users) \subseteq Range(users)

\* C3: a login that names an existing user and gives the password whose
\* hash is stored for that user (and whose store operations all answer)
\* succeeds; a successful login has generated a token no document or other
\* token entry carries, the token list holds exactly one entry with it and
\* that entry's userID is the user's id, the assembler was called with the
\* looked-up document, and the response is {token, state} with state the
\* assembled view of that user.
C3_LoginSuccess ==
    \A i \in Reqs :
        (Done(i) /\ IsAuthenticate(i) /\ req[i].hasBody) =>
            LET r == req[i]
                tokenEntries == {k \in 1..Len(authenticationTokens) :
                                     authenticationTokens[k].token = r.response.token}
            IN  /\ ( /\ r.existed /\ ~r.faulted
                     /\ FirstNamed(r.username).passwordHash = md5(r.password) )
                       => r.response.status = 200
                /\ r.response.status = 200 =>
                     /\ r.user = <<FirstNamed(r.username)>>
                     /\ r.response.token # 0
                     /\ r.response.token \notin DocIds
                     /\ Cardinality(tokenEntries) = 1
                     /\ \A k \in tokenEntries :
                            authenticationTokens[k].userID = r.user[1].id
                     /\ r.asmUser = r.user
                     /\ Len(r.response.state) = 1
                     /\ IsStateOf(r.response.state[1], r.user[1])

\* A login has succeeded after a registration added a group of another owner.
C3_Witness ==
    \E i \in Reqs :
        /\ Succeeded(i) /\ IsAuthenticate(i)
        /\ Len(groups) > Len(SeedGroups)
        /\ Len(authenticationTokens) = 1

BodyComplete(i) == req[i].username # Undefined /\ req[i].password # Undefined

\* C4: a registration whose username named no user when it was looked up
\* (body complete, every store operation answering) ends with status 200;
\* a registration that ended with status 200 has inserted exactly two
\* documents: the one user document with its new id, which is {name:
\* username, id, passwordHash: md5(password)}, and the one group owned by
\* that id, which is {id: its new group id, owner, name: "To Do"}; and the
\* response is {userID, state} with state.session.id = userID.
C4_RegistrationSuccess ==
    \A i \in Reqs :
        (Done(i) /\ IsCreate(i)) =>
            LET r == req[i]
                mine == {k \in 1..Len(users) : users[k].id = r.userID}
                myGroups == {k \in 1..Len(groups) : groups[k].owner = r.userID}
            IN  /\ (~r.existed /\ ~r.faulted /\ BodyComplete(i)) => r.response.status = 200
                /\ r.response.status = 200 =>
                     /\ r.inserts = 2
                     /\ r.userID # 0 /\ r.groupID # 0
                     /\ Cardinality(mine) = 1
                     /\ \A k \in mine :
                            users[k] = [name |-> r.username, id |-> r.userID,
                                        passwordHash |-> md5(r.password)]
                     /\ Cardinality(myGroups) = 1
                     /\ \A k \in myGroups :
                            groups[k] = [id |-> r.groupID, owner |-> r.userID,
                                         name |-> "To Do"]
                     /\ r.response.userID = r.userID
                     /\ Len(r.response.state) = 1
                     /\ r.response.state[1].session.id = r.response.userID
                     /\ r.response.state[1].session.authenticated = "AUTHENTICATED"

\* A registration of a new name has been answered with status 200.
C4_Witness ==
    \E i \in Reqs :
        /\ Succeeded(i) /\ IsCreate(i)
        /\ Len(users) = Len(SeedUsers) + 1
        /\ Len(groups) = Len(SeedGroups) + 1

\* C5: a registration whose username named an existing user when it was
\* looked up is answered with status 500 and the message "A user with that
\* account name already exists.", and has inserted nothing: it generated no
\* identifier and added no user and no group document.
C5_DuplicateRejected ==
    \A i \in Reqs :
        (Done(i) /\ IsCreate(i) /\ req[i].existed /\ ~req[i].faulted) =>
            /\ req[i].response.status = 500
            /\ req[i].response.message = "A user with that account name already exists."
            /\ req[i].response.state = <<>>
            /\ req[i].inserts = 0
            /\ req[i].userID = 0 /\ req[i].groupID = 0

\* A registration of the seeded user's name has been rejected; the store is
\* as it was.
C5_Witness ==
    \E i \in Reqs :
        /\ Done(i) /\ IsCreate(i) /\ req[i].existed
        /\ req[i].response.message = AlreadyExists
        /\ users = SeedUsers /\ groups = SeedGroups

\* C6: every user document inserted by a registration that has been
\* answered, with success or with failure, has exactly one group named
\* "To Do" whose owner is that user's id.
C6_DefaultGroupPerUser ==
    \A i \in Reqs :
        (Done(i) /\ IsCreate(i) /\ req[i].inserts >= 1) =>
            Cardinality({k \in 1..Len(groups) :
                             /\ groups[k].owner = req[i].userID
                             /\ groups[k].name = "To Do"}) = 1

C8_OneEntryPerSuccessfulLogin ==
    Quiescent =>
        Len(authenticationTokens) =
            Cardinality({i \in Reqs : Succeeded(i) /\ IsAuthenticate(i)})

\* C9: two registrations with distinct usernames, neither naming a user
\* when looked up (bodies complete, every store operation answering), are
\* both answered with status 200, and the two user ids and the two group
\* ids they created are four distinct identifiers.
C9_DistinctRegistrations ==
    \A i, j \in Reqs :
        ( /\ i # j
          /\ Done(i) /\ IsCreate(i) /\ ~req[i].existed /\ ~req[i].faulted /\ BodyComplete(i)
          /\ Done(j) /\ IsCreate(j) /\ ~req[j].existed /\ ~req[j].faulted /\ BodyComplete(j)
          /\ req[i].username # req[j].username ) =>
            /\ req[i].response.status = 200
            /\ req[j].response.status = 200
            /\ Cardinality({req[i].response.userID, req[i].groupID,
                            req[j].response.userID, req[j].groupID}) = 4
            /\ 0 \notin {req[i].response.userID, req[i].groupID,
                         req[j].response.userID, req[j].groupID}

\* Two registrations with distinct names have both succeeded, and they ran
\* interleaved: the user inserted first had its group inserted last.
C9_Witness ==
    \E i, j \in Reqs :
        /\ i # j
        /\ Succeeded(i) /\ IsCreate(i) /\ Succeeded(j) /\ IsCreate(j)
        /\ req[i].username # req[j].username
        /\ \E a, b \in 1..Len(users), c, d \in 1..Len(groups) :
               /\ users[a].id = req[i].userID /\ users[b].id = req[j].userID /\ a < b
               /\ groups[c].id = req[i].groupID /\ groups[d].id = req[j].groupID /\ d < c

C11_PasswordIncorrect ==
    \A i \in Reqs :
        ( /\ Done(i) /\ IsAuthenticate(i) /\ req[i].hasBody /\ ~req[i].faulted
          /\ req[i].existed /\ req[i].password # Undefined
          /\ md5(req[i].password) # FirstNamed(req[i].username).passwordHash ) =>
            /\ req[i].response.status = 500
            /\ req[i].response.message = "Password incorrect"
            /\ req[i].response.token = 0
            /\ req[i].response.state = <<>>
            /\ req[i].pushed = 0 /\ req[i].token = 0

\* A login of the seeded user with another password than the stored one
\* has been answered; the token list is empty.
C11_Witness ==
    \E i \in Reqs :
        /\ Done(i) /\ IsAuthenticate(i) /\ ~req[i].faulted
        /\ req[i].username = "alice" /\ req[i].password = "q"
        /\ req[i].response.message = PasswordIncorrect
        /\ authenticationTokens = <<>>

\* C12: a login that arrives with no body at all is answered with status
\* 500 and the body "Request body is null", with no token and no state.
C12_NullBody ==
    \A i \in Reqs :
        (Done(i) /\ IsAuthenticate(i) /\ ~req[i].hasBody) =>
            /\ req[i].response.status = 500
            /\ req[i].response.message = "Request body is null"
            /\ req[i].response.token = 0
            /\ req[i].response.state = <<>>

\* A login without a body has been answered before the process ever
\* connected to the store.
C12_Witness ==
    \E i \in Reqs :
        /\ Done(i) /\ IsAuthenticate(i) /\ ~req[i].hasBody
        /\ req[i].response.status = 500
        /\ connectCalls = 0

\* C13: a login or a registration one of whose awaited operations (the
\* connection, the lookup, an insert, a query of the assembler) rejected
\* has been answered with status 500, and the body is the text of none of
\* the errors those operations reject with; it carries no token, no userID
\* and no state.
C13_GenericStoreFailure ==
    \A i \in Reqs :
        ((IsAuthenticate(i) \/ IsCreate(i)) /\ req[i].faulted) =>
            /\ Done(i)
            /\ req[i].response.status = 500
            /\ req[i].response.message \notin {OpError(p) : p \in FailPoints}
            /\ req[i].response.token = 0
            /\ req[i].response.userID = 0
            /\ req[i].response.state = <<>>

\* A login failed in a query of the assembler, after its token was added,
\* and a registration failed at the insert of its group, after its user
\* was added.
C13_Witness ==
    \E i, j \in Reqs :
        /\ IsAuthenticate(i) /\ req[i].faulted /\ req[i].pushed = 1
        /\ IsCreate(j) /\ req[j].faulted /\ req[j].inserts = 1
        /\ req[i].response.status = 500 /\ req[j].response.status = 500

\* ------------------------------------------------- the assembler's contract
IsAssemble(i) == req[i].kind = "assemble"
HasResolved(i) == IsAssemble(i) /\ req[i].result.settled = "resolved"
StateOf(i) == req[i].result.value[1]
ArgId(i) == req[i].asmUser[1].id
NoId(user) == IF user = <<>> THEN TRUE ELSE user[1].id = 0

\* How many documents of a collection this user owns.
OwnedCount(docs, id) == Cardinality({k \in 1..Len(docs) : docs[k].owner = id})

\* C14: a call of assembleUserState whose argument is absent (null,
\* undefined) or is an object without an id has settled at once, rejected
\* with the error "User and user.id are required", with no state; it has
\* awaited nothing: no connectDB call, no query, and MongoClient.connect
\* was not invoked by it.
C14_InvalidArgumentFailsFirst ==
    \A i \in Reqs :
        (IsAssemble(i) /\ NoId(req[i].asmUser)) =>
            /\ Done(i)
            /\ req[i].result.settled = "rejected"
            /\ req[i].result.error = "User and user.id are required"
            /\ req[i].result.value = <<>>
            /\ req[i].calls = <<>>
            /\ ~req[i].faulted
            /\ connectCalls = db

\* A call with an object that has a name and no id was rejected by a
\* process that never connected, the store holding tasks.
C14_Witness ==
    \E i \in Reqs :
        /\ IsAssemble(i) /\ Done(i)
        /\ req[i].asmUser # <<>> /\ NoId(req[i].asmUser)
        /\ req[i].result.settled = "rejected"
        /\ db = 0 /\ tasks # <<>>

\* C15: whatever the store holds, a call with a user that has an id and
\* whose operations all answer resolves; the tasks of the state it resolved
\* to are exactly the stored tasks whose owner is user.id, and its groups
\* exactly the stored groups whose owner is user.id: every one owned by the
\* user is there, once, and none owned by another user.
C15_OwnTasksAndGroups ==
    \A i \in Reqs :
        /\ (IsAssemble(i) /\ Done(i) /\ ~NoId(req[i].asmUser) /\ ~req[i].faulted)
               => HasResolved(i)
        /\ HasResolved(i) =>
               LET st == StateOf(i)
                   id == ArgId(i)
               IN  /\ \A t \in Range(tasks) : (t.owner = id) <=> (t \in Range(st.tasks))
                   /\ \A t \in Range(st.tasks) : t \in Range(tasks)
                   /\ Len(st.tasks) = OwnedCount(tasks, id)
                   /\ \A g \in Range(groups) : (g.owner = id) <=> (g \in Range(st.groups))
                   /\ \A g \in Range(st.groups) : g \in Range(groups)
                   /\ Len(st.groups) = OwnedCount(groups, id)

\* A call has resolved on a store that holds tasks and groups of the user
\* and of the other user: some are in the state, some are left out.
C15_Witness ==
    \E i \in Reqs :
        /\ HasResolved(i)
        /\ StateOf(i).tasks # <<>> /\ Len(StateOf(i).tasks) < Len(tasks)
        /\ StateOf(i).groups # <<>> /\ Len(StateOf(i).groups) < Len(groups)

\* C16: whatever the store holds, the comments of the state a call resolved
\* to are exactly the stored comments whose task is the id of one of the
\* tasks of that state, each once; for a user with no tasks they are the
\* empty list, and the comments query was issued all the same.
C16_CommentsOfOwnTasks ==
    \A i \in Reqs :
        HasResolved(i) =>
            LET st == StateOf(i)
                OnMine(c) == \E t \in Range(st.tasks) : c.task = t.id
            IN  /\ \A c \in Range(comments) : OnMine(c) <=> (c \in Range(st.comments))
                /\ \A c \in Range(st.comments) : c \in Range(comments)
                /\ Len(st.comments) =
                       Cardinality({k \in 1..Len(comments) : OnMine(comments[k])})
                /\ st.tasks = <<>> => st.comments = <<>>
                /\ Cardinality({k \in 1..Len(req[i].calls) :
                                    req[i].calls[k] = "asmComments"}) = 1

\* A call has resolved for a user who owns a task with a comment, on a
\* store that also holds a comment on a task of the other user.
C16_Witness ==
    \E i \in Reqs :
        /\ HasResolved(i)
        /\ StateOf(i).comments # <<>>
        /\ Len(StateOf(i).comments) < Len(comments)
        /\ \E c \in Range(comments), t \in Range(tasks) :
               c.task = t.id /\ t.owner # ArgId(i)

\* C17: in the state a call resolved to, users holds the requester's own
\* document, when one is stored, and every stored user document whose id
\* is the owner of a task or of a comment of that state: the user who owns
\* a comment on one of the requester's tasks is in users.
C17_CommentOwnersInUsers ==
    \A i \in Reqs :
        HasResolved(i) =>
            LET st == StateOf(i)
            IN  \A u \in Range(users) :
                    ( \/ u.id = ArgId(i)
                      \/ \E t \in Range(st.tasks) : t.owner = u.id
                      \/ \E c \in Range(st.comments) : c.owner = u.id )
                    => u \in Range(st.users)

RelatedUsers(st) ==
    LET OwnsTask(u) == \E t \in Range(st.tasks) : t.owner = u.id
    IN  SelectSeq(users, OwnsTask)

\* C19: in the state a call resolved to, users is the requester's own
\* document, when the lookup by id finds one, followed by the documents of
\* the related-user query in the order the store returns them, and nothing
\* else; when no stored user has the id, the call resolves all the same
\* and users is the related-user documents alone.
C19_OwnDocumentFirst ==
    \A i \in Reqs :
        /\ (IsAssemble(i) /\ Done(i) /\ ~NoId(req[i].asmUser) /\ ~req[i].faulted)
               => HasResolved(i)
        /\ HasResolved(i) =>
               LET st == StateOf(i)
                   mine == {k \in 1..Len(users) : users[k].id = ArgId(i)}
                   first == CHOOSE k \in mine : \A j \in mine : k <= j
               IN  st.users = IF mine = {}
                              THEN RelatedUsers(st)
                              ELSE <<users[first]>> \o RelatedUsers(st)

\* A call has resolved for a user who owns a task and whose own document
\* is not in the store, while another user's is.
C19_Witness ==
    \E i \in Reqs :
        /\ HasResolved(i)
        /\ StateOf(i).tasks # <<>>
        /\ users # <<>>
        /\ \A u \in Range(users) : u.id # ArgId(i)
        /\ StateOf(i).users = <<>>

\* The operation a request awaits at this position, as AsmOps names it.
OpAt(pc) == IF pc = "connecting" THEN "connectDB" ELSE pc

\* C20: a call one of whose awaited operations rejected (the connection or
\* any of the five queries) has settled, rejected with the error of that
\* operation, with no state at all; the operations it awaited are the
\* assembler's operations in order up to the failed one, each once: the
\* failed operation was not issued again and nothing was issued after it.
C20_FailurePropagates ==
    \A i \in Reqs :
        (IsAssemble(i) /\ req[i].faulted) =>
            /\ Done(i)
            /\ req[i].result.settled = "rejected"
            /\ req[i].result.error = OpError(req[i].failedAt)
            /\ req[i].result.value = <<>>
            /\ \E n \in 1..Len(AsmOps) :
                   /\ AsmOps[n] = OpAt(req[i].failedAt)
                   /\ req[i].calls = SubSeq(AsmOps, 1, n)

\* The groups query, the last one, rejected for a user who owns tasks.
C20_Witness ==
    \E i \in Reqs :
        /\ IsAssemble(i) /\ req[i].faulted
        /\ req[i].failedAt = "asmGroups"
        /\ req[i].result.error = "Groups query failed"
        /\ OwnedCount(tasks, ArgId(i)) > 0


\* ------------------------------------------------- C21
\* C21: assembleUserState only reads.  Every step of a call of the
\* assembler, from the call to the moment its promise settles, resolved or
\* rejected, leaves the tasks, comments, users and groups collections as
\* they were: the contents after the call are the contents before it.
C21_AssemblerOnlyReads ==
    [][\A i \in Reqs :
          (req'[i] # req[i] /\ req'[i].kind = "assemble") => store' = store]_vars

\* a call that resolved on a store with documents in all four collections,
\* some of them in the state it returned
C21_Witness ==
    \E i \in Reqs :
        /\ HasResolved(i)
        /\ StateOf(i).tasks # <<>> /\ StateOf(i).comments # <<>>
        /\ StateOf(i).users # <<>> /\ StateOf(i).groups # <<>>
        /\ Len(tasks) = MaxDocs /\ Len(comments) = MaxDocs

\* ------------------------------------------------- C22
\* The direct call of caller i has resolved.
HasHandle(i) == req[i].kind = "connectDB" /\ req[i].result.settled = "resolved"

\* C22: once a connectDB call has completed successfully, a connectDB call
\* made after it gets the handle that call returned, at once, and starts no
\* MongoClient.connect.
C22_LaterCallsSameHandle ==
    [][\A i, j \in Callers :
          (req[i].pc = "idle" /\ req'[i].pc # "idle" /\ HasHandle(j))
              => /\ req'[i].pc = "connected"
                 /\ req'[i].dbh = req[j].result.value[1]
                 /\ connectCalls' = connectCalls]_vars

\* ------------------------------------------------- C28
\* C28: a connection attempt that fails rejects the connectDB call that
\* made it with the error of the attempt and caches nothing; a call made
\* while no handle is cached starts a new attempt; and an attempt that
\* succeeds caches its handle and hands it to its caller.
C28_FailedAttemptNotCached ==
    [][\A i \in Callers :
          /\ (req[i].pc = "connecting" /\ req'[i].pc = "done")
                => /\ req'[i].result = Rejected(OpError("connecting"))
                   /\ db' = db /\ clients' = clients
          /\ (req[i].pc = "idle" /\ req'[i].pc # "idle" /\ db = 0)
                => /\ req'[i].pc = "connecting"
                   /\ connectCalls' = connectCalls + 1
          /\ (req[i].pc = "connecting" /\ req'[i].pc = "connected")
                => /\ db' # 0 /\ req'[i].dbh = db'
          /\ (req[i].pc = "connected" /\ req'[i].pc = "done")
                => /\ req'[i].result = Resolved(req[i].dbh)
                   /\ req[i].dbh # 0]_vars

\* the first caller's attempt failed with nothing cached, a call made after
\* it started a second attempt and holds the handle it returned
C28_Witness ==
    /\ req[1].kind = "connectDB" /\ req[1].result.settled = "rejected"
    /\ HasHandle(2) /\ req[2].result.value = <<db>>
    /\ connectCalls = 2 /\ clients = 1
    /\ req[3].pc = "idle"

\* ------------------------------------------------- C23
\* The direct call of updateTask by caller i has resolved.
UpdResolved(i) == req[i].kind = "updateTask" /\ req[i].result.settled = "resolved"

\* The updateOne calls of caller i that set field f.
UpdatesOf(i, f) == {k \in 1..Len(req[i].updates) : req[i].updates[k].field = f}

C24_ExitsOnDefaultSecrets ==
    (/\ proc.status \in {"validated", "listening", "exited"}
     /\ proc.env.NODE_ENV = "production"
     /\ \/ proc.env.SESSION_SECRET \in {"unset", "default-session-secret"}
        \/ proc.env.JWT_SECRET \in {"unset", "default-jwt-secret"})
        => proc.status = "exited"

\* ------------------------------------------------- C25
\* C25: a call of the assembler that resolves has awaited, after connectDB,
\* exactly the five reads, each once and in this order: tasks by owner,
\* comments by task-id membership, users by owner-id membership, the
\* requester's own user document, groups by owner.  For a requester who
\* owns no stored task the comments read is issued all the same, before the
\* users read, and the task list its membership list is taken from is empty.
C25_ReadsOnceInOrder ==
    \A i \in Reqs :
        IsAssemble(i) =>
            /\ HasResolved(i) =>
                  /\ Len(req[i].calls) = 6
                  /\ req[i].calls[1] = "connectDB"
                  /\ SubSeq(req[i].calls, 2, 6) =
                        <<"asmTasks", "asmComments", "asmUsers", "asmOwnUser", "asmGroups">>
            /\ (req[i].pc = "asmUsers" /\ OwnedCount(tasks, ArgId(i)) = 0) =>
                  /\ req[i].tasksL = <<>>
                  /\ req[i].calls = <<"connectDB", "asmTasks", "asmComments", "asmUsers">>

\* a call that resolved with an empty task list on a store that holds tasks
\* and comments of others
C25_Witness ==
    \E i \in Reqs :
        /\ HasResolved(i)
        /\ StateOf(i).tasks = <<>> /\ StateOf(i).comments = <<>>
        /\ tasks # <<>> /\ comments # <<>>
        /\ req[i].calls[3] = "asmComments"

\* ------------------------------------------------- C26
\* C26: a login that has been answered with a failure has added nothing to
\* the token list; and every entry of the list whose login has been
\* answered was sent in that login's successful {token, state} response.
C26_FailedLoginLeavesNoToken ==
    /\ \A i \in Reqs :
          (Done(i) /\ IsAuthenticate(i) /\ req[i].response.status # 200)
              => req[i].pushed = 0
    /\ \A k \in 1..Len(authenticationTokens) :
          \A i \in Reqs :
              (Done(i) /\ IsAuthenticate(i)
                 /\ req[i].token = authenticationTokens[k].token)
                  => /\ req[i].response.status = 200
                     /\ req[i].response.token = authenticationTokens[k].token

\* ------------------------------------------------- C27
\* C27: a login with the username and password of a registration that was
\* answered with success before the login was sent is answered with
\* success, and the session of its state carries the userID the
\* registration returned, whatever other requests ran in between.
C27_LoginAfterRegistration ==
    \A i, j \in Callers :
        (/\ j < i
         /\ req[j].kind = "create" /\ req[j].pc = "done"
         /\ req[j].response.status = 200
         /\ req[i].kind = "authenticate" /\ req[i].pc = "done"
         /\ ~req[i].faulted
         /\ req[i].username = req[j].username
         /\ req[i].password = req[j].password)
            => /\ req[i].response.status = 200
               /\ req[i].response.state[1].session.id = req[j].response.userID

\* ------------------------------------------------- C29
\* C29: in the state a call of the assembler resolves with, the task of
\* every comment is the id of a task of that state's task list, whatever
\* tasks and comments other requests insert while the call runs, between
\* its task query and its comment query included.
C29_CommentsOnListedTasks ==
    \A i \in Callers :
        HasResolved(i) =>
            \A k \in 1..Len(StateOf(i).comments) :
                \E m \in 1..Len(StateOf(i).tasks) :
                    StateOf(i).tasks[m].id = StateOf(i).comments[k].task

\* a call for alice resolved with her seeded task and its comment, while
\* the store holds a task of hers that came after the task query, and a
\* comment on that task, neither of them in the state
C29_Witness ==
    \E i \in Callers :
        /\ HasResolved(i) /\ ArgId(i) = 1
        /\ Len(StateOf(i).tasks) = 1 /\ Len(StateOf(i).comments) = 1
        /\ \E t \in 1..Len(tasks), c \in 1..Len(comments) :
              /\ tasks[t].owner = 1 /\ tasks[t].id # StateOf(i).tasks[1].id
              /\ comments[c].task = tasks[t].id

\* ------------------------------------------------- C30
\* C30: the state of every call of the assembler that resolves carries the
\* session {authenticated: "AUTHENTICATED", id: user.id}, with the id of the
\* argument, whether or not the store holds a user document of that id.  A
\* call for an id that has no user document and owns no task and no group,
\* and whose reads all answer, resolves, with users, tasks, comments and
\* groups all empty.
C30_SessionFromArgument ==
    \A i \in Reqs :
        /\ HasResolved(i) =>
              /\ StateOf(i).session.authenticated = "AUTHENTICATED"
              /\ StateOf(i).session.id = ArgId(i)
              /\ DOMAIN StateOf(i).session = {"authenticated", "id"}
        /\ (/\ IsAssemble(i) /\ Done(i) /\ ~req[i].faulted
            /\ ~NoId(req[i].asmUser)
            /\ \A k \in 1..Len(users) : users[k].id # ArgId(i)
            /\ OwnedCount(tasks, ArgId(i)) = 0
            /\ OwnedCount(groups, ArgId(i)) = 0)
              => /\ HasResolved(i)
                 /\ StateOf(i).users = <<>> /\ StateOf(i).tasks = <<>>
                 /\ StateOf(i).comments = <<>> /\ StateOf(i).groups = <<>>

\* a call for an id the store knows nothing of, on a store that holds a
\* user, tasks, comments and groups of another: resolved, all lists empty
C30_Witness ==
    \E i \in Reqs :
        /\ HasResolved(i)
        /\ \A k \in 1..Len(users) : users[k].id # ArgId(i)
        /\ users # <<>> /\ tasks # <<>> /\ comments # <<>> /\ groups # <<>>
        /\ StateOf(i).session = [authenticated |-> "AUTHENTICATED", id |-> ArgId(i)]
        /\ StateOf(i).users = <<>> /\ StateOf(i).tasks = <<>>
        /\ StateOf(i).comments = <<>> /\ StateOf(i).groups = <<>>
====
